---- MODULE Spec2Model ----
(***************************************************************************)
(* Model of script.py: the ETEPS reading-club production tool.             *)
(*                                                                         *)
(* A Python str is a sequence of one-character strings.  None and a file   *)
(* that does not exist are sequences no text can equal.  A text file holds *)
(* a text value: open(..., "w").write(s) stores s and open(..., "r")       *)
(* .read() returns what is stored (line-ending translation of text-mode    *)
(* I/O is not part of the model).                                          *)
(***************************************************************************)
EXTENDS Integers, Sequences, FiniteSets, TLC

\* ------------------------------------------------------------------ bounds
\* Longest text the speech model or the chat service returns.
MaxTextLen == 2
\* Most entries a listed directory holds.
MaxEntries == 3
\* Largest number typed at the file prompt.
MaxIndex == 4

\* ------------------------------------------------------------ Python values
None == <<"<None>">>
Absent == <<"<absent>">>

\* Python truthiness of a str-or-None value (`if not x`).
Falsy(v) == v = None \/ v = <<>>

Whitespace == {" "}

RECURSIVE LStrip(_)
LStrip(s) == IF s # <<>> /\ Head(s) \in Whitespace THEN LStrip(Tail(s)) ELSE s

RECURSIVE RStrip(_)
RStrip(s) ==
    IF s # <<>> /\ s[Len(s)] \in Whitespace THEN RStrip(SubSeq(s, 1, Len(s) - 1)) ELSE s

\* str.strip()
Strip(s) == RStrip(LStrip(s))

Digits == <<"0", "1", "2", "3", "4", "5", "6", "7", "8", "9">>

DigitSet == {Digits[i] : i \in 1..10}

\* str.isdigit(): non-empty and every character a digit.
IsDigit(s) == s # <<>> /\ \A i \in 1..Len(s) : s[i] \in DigitSet

DigitVal(c) == (CHOOSE i \in 1..10 : Digits[i] = c) - 1

\* int(s) for a string of digits.
RECURSIVE IntOf(_)
IntOf(s) ==
    IF s = <<>> THEN 0 ELSE 10 * IntOf(SubSeq(s, 1, Len(s) - 1)) + DigitVal(s[Len(s)])

\* The decimal numeral a user types for n.
RECURSIVE Numeral(_)
Numeral(n) == IF n < 10 THEN <<Digits[n + 1]>> ELSE Numeral(n \div 10) \o <<Digits[(n % 10) + 1]>>

UpperCase == <<"A", "B", "I", "M", "O", "P", "V">>

LowerCase == <<"a", "b", "i", "m", "o", "p", "v">>

LowerChar(c) ==
    IF \E i \in 1..Len(UpperCase) : UpperCase[i] = c
    THEN LowerCase[CHOOSE i \in 1..Len(UpperCase) : UpperCase[i] = c]
    ELSE c

\* str.lower()
Lower(s) == [i \in 1..Len(s) |-> LowerChar(s[i])]

\* str.endswith(suffix)
EndsWith(s, suf) ==
    Len(s) >= Len(suf) /\ SubSeq(s, Len(s) - Len(suf) + 1, Len(s)) = suf

\* seq[i] with Python's indexing: i counts from 0, a negative i from the end.
PyIndex(seq, i) == IF i >= 0 THEN seq[i + 1] ELSE seq[Len(seq) + i + 1]

Sep == "/"

\* os.path.join(a, b) on POSIX.
Join(a, b) ==
    IF b # <<>> /\ Head(b) = Sep THEN b
    ELSE IF a = <<>> \/ a[Len(a)] = Sep THEN a \o b
    ELSE a \o <<Sep>> \o b

\* ------------------------------------------------------ File/Directory Selector
video_extensions ==
    { <<".", "m", "p", "4">>, <<".", "m", "o", "v">>, <<".", "a", "v", "i">> }

IsVideoName(f) == \E e \in video_extensions : EndsWith(Lower(f), e)

\* [f for f in os.listdir(directory) if f.lower().endswith(video_extensions)]
VideoFiles(entries) == SelectSeq(entries, IsVideoName)

\* os.getcwd()
Cwd == <<"/", "w">>

\* A second directory, named relative to the working directory.
Dir == <<"d">>

NoSuchDir == [exists |-> FALSE, listable |-> FALSE, entries |-> <<>>]

DirOf(f, d) == IF d \in DOMAIN f THEN f[d] ELSE NoSuchDir

\* os.path.isdir(directory)
IsDir(f, d) == DirOf(f, d).exists

\* os.path.exists(candidate) for a candidate built from `directory`: the
\* directory itself (an empty name gives "directory/") or one of its entries.
PathExists(f, d, candidate) ==
    /\ IsDir(f, d)
    /\ \/ candidate = Join(d, <<>>)
       \/ \E i \in 1..Len(DirOf(f, d).entries) : candidate = Join(d, DirOf(f, d).entries[i])

\* `if not directory: directory = os.getcwd()`
ResolveDirectory(typed) == IF Strip(typed) = <<>> THEN Cwd ELSE Strip(typed)

ValidIndex_offByOne(index, n) == 0 <= index /\ index <= n

\* `1 <= index <= len(video_files)`
ValidIndex(index, n) == 1 <= index /\ index <= n

LiteralFound_videosOnly(f, d, name) ==
    PathExists(f, d, Join(d, name)) /\ IsVideoName(name)

\* `os.path.exists(candidate)` for candidate = os.path.join(directory, choice)
LiteralFound(f, d, name) == PathExists(f, d, Join(d, name))

\* Lines 53-67: the value returned for the stripped choice.
ResolveChoice(f, d, vids, c) ==
    IF IsDigit(c)
    THEN IF ValidIndex(IntOf(c), Len(vids)) THEN Join(d, PyIndex(vids, IntOf(c) - 1)) ELSE None
    ELSE IF LiteralFound(f, d, c) THEN Join(d, c) ELSE None

\* ------------------------------------------------------------------- state
VARIABLES
    pc,              \* where the process is ("idle": no process is running)
    env_key,         \* os.getenv("OPENAI_API_KEY") once load_dotenv() has run
    choice,          \* interactive_menu: the stripped menu choice
    output_folder,   \* interactive_menu: the resolved output folder
    outdir,          \* whether the output folder exists on disk
    disk,            \* the four artefacts of the output folder
    video_file,      \* interactive_menu: what choose_video_file returned
    transcription,   \* interactive_menu: the transcript in memory
    summary,         \* interactive_menu: the summary in memory
    flashcards_csv,  \* interactive_menu: the flashcards in memory
    trace,           \* what this run has done so far, in order
    fs,              \* the directories a user can name at the directory prompt
    typed,           \* what the user typed at the Selector's two prompts
    directory,       \* choose_video_file: the resolved directory
    video_files,     \* choose_video_file: the listed video files
    file_choice      \* choose_video_file: the stripped selection

selVars == <<fs, typed, directory, video_files, file_choice>>

vars == <<pc, env_key, choice, output_folder, outdir, disk, video_file,
          transcription, summary, flashcards_csv, trace,
          fs, typed, directory, video_files, file_choice>>

audio_file == "audio.wav"

transcription_file == "transcription.txt"

summary_file == "summary.txt"

flashcards_file == "flashcards.csv"

Artefacts == {audio_file, transcription_file, summary_file, flashcards_file}

\* os.path.exists(<artefact path>)
Exists(d, f) == d[f] # Absent

\* What ffmpeg leaves at the destination: the waveform of the source, or an
\* incomplete file when it stops part-way.
Wav(v) == <<"<wav>">> \o v

Partial == <<"<partial>">>

IsWav(a) == a # Absent /\ a # Partial

Ev(op, arg, res) == [op |-> op, arg |-> arg, res |-> res]

Log(op) == Ev(op, <<>>, <<>>)

Ops(t) == [i \in 1..Len(t) |-> t[i].op]

Did(t, op) == \E i \in 1..Len(t) : t[i].op = op

\* ---------------------------------------------------------------- inputs
TextAlphabet == {"x", " "}

\* Every text the speech model or the chat service may return.
Texts == UNION { [1..n -> TextAlphabet] : n \in 0..MaxTextLen }

\* OPENAI_API_KEY: not set, set to the empty string, set to a key.
KeyValues == { None, <<>>, <<"k">> }

MenuInputs ==
    { <<"1">>, <<"2">>, <<"3">>, <<"4">>, <<"5">>, <<"6">>, <<"7">>,
      <<"8">>, <<>>, <<" ", "5">> }

DefaultFolder == <<"o", "u", "t", "p", "u", "t", "s">>

FolderInputs == { <<>>, DefaultFolder }

A_MP4 == <<"a", ".", "m", "p", "4">>

B_MOV == <<"B", ".", "M", "O", "V">>

N_TXT == <<"n", ".", "t", "x", "t">>

TWO == <<"2">>

SP_AVI == <<" ", "c", ".", "a", "v", "i">>

FileNames == { A_MP4, B_MOV, N_TXT, TWO, SP_AVI }

\* os.listdir: the entries in any order, none twice.
Listings ==
    { l \in UNION { [1..n -> FileNames] : n \in 0..MaxEntries } :
        \A i, j \in 1..Len(l) : i # j => l[i] # l[j] }

DirInputs == { <<>>, Dir, <<" ">> \o Dir \o <<" ">>, <<"q">> }

ChoiceInputs ==
    FileNames
    \cup { Numeral(n) : n \in 0..MaxIndex }
    \cup { <<>>, <<" ">>, <<"z">>, <<" ", "1", " ">>, <<"-", "1">>,
           <<"A", ".", "M", "P", "4">> }

\* The inputs the whole-program specification draws at the Selector's prompts.
MenuDirInputs == { <<>>, <<"q">> }

MenuChoiceInputs == { <<"1">>, <<"9">>, <<>>, N_TXT }

Listed(l) == [exists |-> TRUE, listable |-> TRUE, entries |-> l]

Unlistable == [exists |-> TRUE, listable |-> FALSE, entries |-> <<>>]

\* ------------------------------------------------------------ dispatch table
KeyMissing_emptyOnly(k) == k = <<>>

\* `not os.getenv("OPENAI_API_KEY")`
KeyMissing(k) == Falsy(k)

HasPrerequisite_unchecked(o, d) == TRUE

\* `os.path.exists(transcription_file)`
HasPrerequisite(o, d) == o /\ Exists(d, transcription_file)

ReusesSummary_never(c, d) == FALSE

ReusesSummary_alsoSix(c, d) == c \in { <<"5">>, <<"6">> } /\ Exists(d, summary_file)

\* Option 5 alone looks for a stored summary: `if os.path.exists(summary_file)`
ReusesSummary(c, d) == c = <<"5">> /\ Exists(d, summary_file)

AfterExtract_always(c) == "transcribe"

\* What follows extract_audio: option 2 ends there.
AfterExtract(c) == IF c = <<"2">> THEN "exited" ELSE "transcribe"

\* What follows transcribe_audio: option 3 ends there.
AfterTranscribe(c) == IF c = <<"3">> THEN "exited" ELSE "summarize"

\* What follows the summary's write: option 4 ends there.
AfterSummary(c) == IF c = <<"4">> THEN "exited" ELSE "flashcards"

OnExtractFailure_unchecked(c) == AfterExtract(c)

\* subprocess.run(command, check=True): a non-zero exit raises.
OnExtractFailure(c) == "crashed"

TranscribeReturn_stripped(t) == Strip(t)

\* transcribe_audio returns the text it wrote.
TranscribeReturn(t) == t

\* ------------------------------------------------------------------- Init
NoLocals ==
    /\ choice = None
    /\ output_folder = None
    /\ video_file = None
    /\ transcription = None
    /\ summary = None
    /\ flashcards_csv = None
    /\ trace = <<>>

NoSelection ==
    /\ typed = [directory |-> None, choice |-> None]
    /\ directory = None
    /\ video_files = <<>>
    /\ file_choice = None

\* What the output folder may hold before the first run: nothing, or a
\* transcript and a summary the user keeps there (any text, not only what
\* the tool writes).
StoredBefore ==
    { [f \in Artefacts |->
          IF f = transcription_file THEN t ELSE IF f = summary_file THEN s ELSE Absent] :
      t \in { Absent, <<" ", "x">> }, s \in { Absent, <<"x", " ">> } }

\* No process yet; the output folder is missing or as the user left it; the
\* working directory holds one video and one text file.
Init ==
    /\ pc = "idle"
    /\ env_key = None
    /\ outdir \in BOOLEAN
    /\ disk \in StoredBefore
    /\ (~outdir => disk = [f \in Artefacts |-> Absent])
    /\ fs = (Cwd :> Listed(<<A_MP4, N_TXT>>))
    /\ NoLocals
    /\ NoSelection

\* ------------------------------------------------------------------ __main__
\* The script is started: a new process, with the environment it is given.
Launch(k) ==
    /\ pc \in {"idle", "exited", "crashed"}
    /\ pc' = "main"
    /\ env_key' = k
    /\ choice' = None
    /\ output_folder' = None
    /\ video_file' = None
    /\ transcription' = None
    /\ summary' = None
    /\ flashcards_csv' = None
    /\ trace' = <<>>
    /\ UNCHANGED <<outdir, disk, selVars>>

\* Lines 255-259.
CheckKey ==
    /\ pc = "main"
    /\ IF KeyMissing(env_key)
       THEN pc' = "crashed" /\ trace' = Append(trace, Log("raise_EnvironmentError"))
       ELSE pc' = "menu" /\ trace' = trace
    /\ UNCHANGED <<env_key, choice, output_folder, outdir, disk, video_file,
                   transcription, summary, flashcards_csv, selVars>>

\* ----------------------------------------------------------- interactive_menu
\* Lines 148-171: the menu, the two prompts, os.makedirs(exist_ok=True).
Menu(c, o) ==
    /\ pc = "menu"
    /\ choice' = Strip(c)
    /\ output_folder' = IF Strip(o) = <<>> THEN DefaultFolder ELSE Strip(o)
    /\ outdir' = TRUE
    /\ trace' = trace \o <<Log("print_menu"), Log("input_choice"), Log("input_folder")>>
    /\ pc' = "dispatch"
    /\ UNCHANGED <<env_key, disk, video_file, transcription, summary,
                   flashcards_csv, selVars>>

\* Lines 173, 191, 198, 206-209, 217-220, 235-238, 249-253.
Dispatch ==
    /\ pc = "dispatch"
    /\ IF choice \in { <<"1">>, <<"2">>, <<"3">> }
       THEN pc' = "select_directory" /\ trace' = trace
       ELSE IF choice \in { <<"4">>, <<"5">>, <<"6">> }
       THEN IF HasPrerequisite(outdir, disk)
            THEN pc' = "read_transcription" /\ trace' = trace
            ELSE pc' = "exited" /\ trace' = Append(trace, Log("print_missing_transcription"))
       ELSE IF choice = <<"7">>
       THEN pc' = "exited" /\ trace' = Append(trace, Log("print_goodbye"))
       ELSE pc' = "exited" /\ trace' = Append(trace, Log("print_invalid_choice"))
    /\ UNCHANGED <<env_key, choice, output_folder, outdir, disk, video_file,
                   transcription, summary, flashcards_csv, selVars>>

\* ----------------------------------------------------------- choose_video_file
\* Lines 31-51: the directory prompt, the listing, the three early returns.
EnterDirectory(t) ==
    /\ pc = "select_directory"
    /\ typed' = [typed EXCEPT !.directory = t]
    /\ directory' = ResolveDirectory(t)
    /\ LET d == ResolveDirectory(t)
           vids == VideoFiles(DirOf(fs, d).entries)
       IN  IF ~IsDir(fs, d)
           THEN /\ trace' = Append(trace, Log("print_no_directory"))
                /\ video_file' = None /\ pc' = "selected" /\ video_files' = video_files
           ELSE IF ~DirOf(fs, d).listable
           THEN /\ trace' = Append(trace, Log("print_permission_error"))
                /\ video_file' = None /\ pc' = "selected" /\ video_files' = video_files
           ELSE IF vids = <<>>
           THEN /\ trace' = Append(trace, Log("print_no_videos"))
                /\ video_file' = None /\ pc' = "selected" /\ video_files' = vids
           ELSE /\ trace' = Append(trace, Log("print_listing"))
                /\ video_file' = video_file /\ pc' = "select_file" /\ video_files' = vids
    /\ UNCHANGED <<env_key, choice, output_folder, outdir, disk, transcription,
                   summary, flashcards_csv, fs, file_choice>>

\* Lines 53-67: the file prompt and what it returns.
EnterChoice(c) ==
    /\ pc = "select_file"
    /\ typed' = [typed EXCEPT !.choice = c]
    /\ file_choice' = Strip(c)
    /\ video_file' = ResolveChoice(fs, directory, video_files, Strip(c))
    /\ trace' = IF ResolveChoice(fs, directory, video_files, Strip(c)) # None
                THEN trace
                ELSE IF IsDigit(Strip(c))
                THEN Append(trace, Log("print_invalid_selection"))
                ELSE Append(trace, Log("print_file_not_found"))
    /\ pc' = "selected"
    /\ UNCHANGED <<env_key, choice, output_folder, outdir, disk, transcription,
                   summary, flashcards_csv, fs, directory, video_files>>

\* Lines 174-176, 192-194, 199-201: `if not video_file: return`.
CheckSelection ==
    /\ pc = "selected"
    /\ pc' = IF Falsy(video_file) THEN "exited" ELSE "extract"
    /\ typed' = [directory |-> None, choice |-> None]
    /\ directory' = None
    /\ video_files' = <<>>
    /\ file_choice' = None
    /\ UNCHANGED <<env_key, choice, output_folder, outdir, disk, video_file,
                   transcription, summary, flashcards_csv, trace, fs>>

\* -------------------------------------------------------------- the stages
\* extract_audio, lines 69-84: ffmpeg writes audio.wav, or exits non-zero
\* (having written nothing, or part of the file).  A directory is no input
\* ffmpeg can read.
ExtractAudio ==
    /\ pc = "extract"
    /\ \/ /\ ~EndsWith(video_file, <<Sep>>)
          /\ disk' = [disk EXCEPT ![audio_file] = Wav(video_file)]
          /\ trace' = Append(trace, Ev("extract_audio", <<video_file>>, <<>>))
          /\ pc' = AfterExtract(choice)
       \/ /\ disk' \in { disk, [disk EXCEPT ![audio_file] = Partial] }
          /\ trace' = Append(trace, Ev("extract_audio_failed", <<video_file>>, <<>>))
          /\ pc' = OnExtractFailure(choice)
    /\ UNCHANGED <<env_key, choice, output_folder, outdir, video_file,
                   transcription, summary, flashcards_csv, selVars>>

\* transcribe_audio, lines 91-96: the speech model reads audio.wav and
\* returns a text, or raises.
Transcribe ==
    /\ pc = "transcribe"
    /\ \/ /\ IsWav(disk[audio_file])
          /\ \E t \in Texts :
                /\ transcription' = t
                /\ trace' = Append(trace, Ev("transcribe", <<>>, t))
          /\ pc' = "write_transcription"
       \/ /\ transcription' = transcription
          /\ trace' = Append(trace, Log("transcribe_failed"))
          /\ pc' = "crashed"
    /\ UNCHANGED <<env_key, choice, output_folder, outdir, disk, video_file,
                   summary, flashcards_csv, selVars>>

\* transcribe_audio, lines 97-100: the text is written, then returned.
WriteTranscription ==
    /\ pc = "write_transcription"
    /\ disk' = [disk EXCEPT ![transcription_file] = transcription]
    /\ transcription' = TranscribeReturn(transcription)
    /\ trace' = Append(trace, Ev("write_transcription", <<transcription>>, <<>>))
    /\ pc' = AfterTranscribe(choice)
    /\ UNCHANGED <<env_key, choice, output_folder, outdir, video_file,
                   summary, flashcards_csv, selVars>>

\* Lines 210-211, 221-223, 239-240: the stored transcript is read; option 5
\* then looks for a stored summary.
ReadTranscription ==
    /\ pc = "read_transcription"
    /\ IF Exists(disk, transcription_file)
       THEN /\ transcription' = disk[transcription_file]
            /\ trace' = Append(trace, Log("read_transcription"))
            /\ pc' = IF ReusesSummary(choice, disk) THEN "read_summary" ELSE "summarize"
       ELSE /\ transcription' = transcription
            /\ trace' = Append(trace, Log("raise_FileNotFoundError"))
            /\ pc' = "crashed"
    /\ UNCHANGED <<env_key, choice, output_folder, outdir, disk, video_file,
                   summary, flashcards_csv, selVars>>

\* Lines 224-225.
ReadSummary ==
    /\ pc = "read_summary"
    /\ IF Exists(disk, summary_file)
       THEN /\ summary' = disk[summary_file]
            /\ trace' = Append(trace, Log("read_summary"))
            /\ pc' = "flashcards"
       ELSE /\ summary' = summary
            /\ trace' = Append(trace, Log("raise_FileNotFoundError"))
            /\ pc' = "crashed"
    /\ UNCHANGED <<env_key, choice, output_folder, outdir, disk, video_file,
                   transcription, flashcards_csv, selVars>>

\* generate_summary, lines 102-121: the service answers with a completion,
\* returned stripped, or the call raises.
GenerateSummary ==
    /\ pc = "summarize"
    /\ \/ /\ \E c \in Texts :
                /\ summary' = Strip(c)
                /\ trace' = Append(trace, Ev("generate_summary", <<transcription>>, Strip(c)))
          /\ pc' = "write_summary"
       \/ /\ summary' = summary
          /\ trace' = Append(trace, Log("generate_summary_failed"))
          /\ pc' = "crashed"
    /\ UNCHANGED <<env_key, choice, output_folder, outdir, disk, video_file,
                   transcription, flashcards_csv, selVars>>

\* Lines 180-181, 213-214, 228-229, 242-243.
WriteSummary ==
    /\ pc = "write_summary"
    /\ disk' = [disk EXCEPT ![summary_file] = summary]
    /\ trace' = Append(trace, Ev("write_summary", <<summary>>, <<>>))
    /\ pc' = AfterSummary(choice)
    /\ UNCHANGED <<env_key, choice, output_folder, outdir, video_file,
                   transcription, summary, flashcards_csv, selVars>>

\* generate_flashcards, lines 123-145.
GenerateFlashcards ==
    /\ pc = "flashcards"
    /\ \/ /\ \E c \in Texts :
                /\ flashcards_csv' = Strip(c)
                /\ trace' = Append(trace,
                                   Ev("generate_flashcards", <<summary, transcription>>, Strip(c)))
          /\ pc' = "write_flashcards"
       \/ /\ flashcards_csv' = flashcards_csv
          /\ trace' = Append(trace, Log("generate_flashcards_failed"))
          /\ pc' = "crashed"
    /\ UNCHANGED <<env_key, choice, output_folder, outdir, disk, video_file,
                   transcription, summary, selVars>>

\* Lines 183-184, 231-232, 245-246.
WriteFlashcards ==
    /\ pc = "write_flashcards"
    /\ disk' = [disk EXCEPT ![flashcards_file] = flashcards_csv]
    /\ trace' = Append(trace, Ev("write_flashcards", <<flashcards_csv>>, <<>>))
    /\ pc' = "exited"
    /\ UNCHANGED <<env_key, choice, output_folder, outdir, video_file,
                   transcription, summary, flashcards_csv, selVars>>

\* ------------------------------------------------------------ specifications
Next ==
    \/ \E k \in KeyValues : Launch(k)
    \/ CheckKey
    \/ \E c \in MenuInputs, o \in FolderInputs : Menu(c, o)
    \/ Dispatch
    \/ \E t \in MenuDirInputs : EnterDirectory(t)
    \/ \E c \in MenuChoiceInputs : EnterChoice(c)
    \/ CheckSelection
    \/ ExtractAudio
    \/ Transcribe
    \/ WriteTranscription
    \/ ReadTranscription
    \/ ReadSummary
    \/ GenerateSummary
    \/ WriteSummary
    \/ GenerateFlashcards
    \/ WriteFlashcards

\* Runs of the script, one after another, against one output folder.
Spec == Init /\ [][Next]_vars

\* The Selector alone, called on any of the directories and selections.
SelInit ==
    /\ pc = "select_directory"
    /\ env_key = <<"k">>
    /\ outdir = TRUE
    /\ disk = [f \in Artefacts |-> Absent]
    /\ \E here \in {Listed(l) : l \in Listings} \cup {Unlistable},
          there \in {NoSuchDir, Unlistable, Listed(<<B_MOV, N_TXT>>)} :
            fs = (Cwd :> here) @@ (Dir :> there)
    /\ choice = <<"2">>
    /\ output_folder = DefaultFolder
    /\ video_file = None
    /\ transcription = None
    /\ summary = None
    /\ flashcards_csv = None
    /\ trace = <<>>
    /\ NoSelection

SelNext ==
    \/ \E t \in DirInputs : EnterDirectory(t)
    \/ \E c \in ChoiceInputs : EnterChoice(c)

SelSpec == SelInit /\ [][SelNext]_vars

\* ------------------------------------------------------------------ claims
Last(t) == t[Len(t)]

Opt123 == { <<"1">>, <<"2">>, <<"3">> }

Opt456 == { <<"4">>, <<"5">>, <<"6">> }

\* C1: when option 4, 5 or 6 is dispatched and transcription.txt is not in
\* the output folder, the one step the run still takes prints the
\* missing-prerequisite message and returns: the Summarizer and the
\* Flashcard Generator are not called, and neither the output folder nor any
\* of the four artefacts changes.
C1_MissingPrerequisite ==
    [][(pc = "dispatch" /\ choice \in Opt456 /\ ~Exists(disk, transcription_file))
        => (/\ pc' = "exited"
            /\ trace' = Append(trace, Log("print_missing_transcription"))
            /\ ~Did(trace', "generate_summary") /\ ~Did(trace', "generate_summary_failed")
            /\ ~Did(trace', "generate_flashcards")
            /\ ~Did(trace', "generate_flashcards_failed")
            /\ disk' = disk
            /\ outdir' = outdir)]_vars

C1_Witness ==
    /\ pc = "exited"
    /\ choice = <<"6">>
    /\ ~Exists(disk, transcription_file)
    /\ Last(trace) = Log("print_missing_transcription")

\* C2: in option 5, a stored summary.txt found next to transcription.txt is
\* read instead of calling the Summarizer: the run then never calls the
\* Summarizer nor writes summary.txt, the file keeps its content, and the
\* Flashcard Generator receives exactly the stored content; option 5 reaches
\* the Summarizer only while summary.txt is absent.
C2_Option5ReusesSummary ==
    /\ [](choice = <<"5">> =>
            (/\ (pc = "summarize" => ~Exists(disk, summary_file))
             /\ (Did(trace, "read_summary") =>
                   (/\ ~Did(trace, "generate_summary")
                    /\ ~Did(trace, "generate_summary_failed")
                    /\ ~Did(trace, "write_summary")
                    /\ Exists(disk, summary_file)
                    /\ \A i \in 1..Len(trace) :
                          (trace[i].op = "generate_flashcards")
                              => (trace[i].arg[1] = disk[summary_file])))))
    /\ [][choice = <<"5">> =>
            (/\ (pc = "read_transcription" /\ Exists(disk, transcription_file)
                    /\ Exists(disk, summary_file)) => (pc' = "read_summary")
             /\ Exists(disk, summary_file) => (disk'[summary_file] = disk[summary_file]))]_vars

C2_Witness ==
    /\ pc = "exited"
    /\ choice = <<"5">>
    /\ Did(trace, "read_summary")
    /\ Did(trace, "write_flashcards")

\* C3: each artefact is written only by the menu choices whose row lists it:
\* audio.wav by 1, 2, 3; transcription.txt by 1, 3; summary.txt by 1, 4, 5,
\* 6; flashcards.csv by 1, 5, 6.  Choice 7 and an unrecognised choice write
\* none, and an artefact a choice does not list keeps its content.
C3_WritesOnlyListedArtefacts ==
    /\ [](/\ (Did(trace, "extract_audio") \/ Did(trace, "extract_audio_failed"))
                => (choice \in Opt123)
          /\ Did(trace, "write_transcription") => (choice \in { <<"1">>, <<"3">> })
          /\ Did(trace, "write_summary") => (choice \in { <<"1">> } \cup Opt456)
          /\ Did(trace, "write_flashcards") => (choice \in { <<"1">>, <<"5">>, <<"6">> }))
    /\ [][(/\ (disk'[audio_file] # disk[audio_file]) => (choice \in Opt123)
           /\ (disk'[transcription_file] # disk[transcription_file])
                 => (choice \in { <<"1">>, <<"3">> })
           /\ (disk'[summary_file] # disk[summary_file])
                 => (choice \in { <<"1">> } \cup Opt456)
           /\ (disk'[flashcards_file] # disk[flashcards_file])
                 => (choice \in { <<"1">>, <<"5">>, <<"6">> }))]_vars

C3_Witness ==
    /\ pc = "exited"
    /\ choice = <<"2">>
    /\ Did(trace, "extract_audio")
    /\ IsWav(disk[audio_file])
    /\ Exists(disk, summary_file)

StageOrder ==
    << "extract_audio", "transcribe", "write_transcription", "generate_summary",
       "write_summary", "generate_flashcards", "write_flashcards" >>

\* The stage whose failure an op records ("" for an op that records none).
FailedStage(op) ==
    IF op = "extract_audio_failed" THEN "extract_audio"
    ELSE IF op = "transcribe_failed" THEN "transcribe"
    ELSE IF op = "generate_summary_failed" THEN "generate_summary"
    ELSE IF op = "generate_flashcards_failed" THEN "generate_flashcards"
    ELSE ""

IsStageOp(op) == (\E i \in 1..Len(StageOrder) : StageOrder[i] = op) \/ FailedStage(op) # ""

StagesRun(t) == SelectSeq(Ops(t), IsStageOp)

\* C4: in option 1 the stages and their writes happen in the order extract,
\* transcribe, write transcription, summarize, write summary, flashcards,
\* write flashcards.  A stage that fails is the last thing the run does: it
\* is not tried again, no later stage runs, no later artefact is written, and
\* what the earlier stages wrote stays as it is.
C4_FullWorkflowOrder ==
    /\ [](choice = <<"1">> =>
            LET r == StagesRun(trace)
                n == Len(r)
            IN  \/ r = SubSeq(StageOrder, 1, n)
                \/ /\ n >= 1
                   /\ n <= Len(StageOrder)
                   /\ SubSeq(r, 1, n - 1) = SubSeq(StageOrder, 1, n - 1)
                   /\ FailedStage(r[n]) = StageOrder[n]
                   /\ pc = "crashed")
    /\ [][choice = <<"1">> =>
            (/\ (pc = "crashed") => (disk' = disk)
             /\ (Len(trace') = Len(trace) + 1 /\ FailedStage(Last(trace').op) # "")
                  => (/\ pc' = "crashed"
                      /\ \A f \in Artefacts \ {audio_file} : disk'[f] = disk[f]
                      /\ (FailedStage(Last(trace').op) # "extract_audio")
                            => (disk' = disk)))]_vars

C4_Witness ==
    /\ pc = "crashed"
    /\ choice = <<"1">>
    /\ Did(trace, "generate_flashcards_failed")
    /\ Did(trace, "write_summary")
    /\ disk[summary_file] = summary
    /\ ~Exists(disk, flashcards_file)

\* C5: options 4 and 6, with transcription.txt present, go to the Summarizer
\* on every invocation, stored summary or not, never read summary.txt, and
\* write what the Summarizer returned to summary.txt.
C5_Options4And6Regenerate ==
    /\ [](choice \in { <<"4">>, <<"6">> } => ~Did(trace, "read_summary"))
    /\ [][(choice \in { <<"4">>, <<"6">> }) =>
            (/\ (pc = "read_transcription" /\ Exists(disk, transcription_file))
                  => (pc' = "summarize")
             /\ (pc = "summarize")
                  => (\/ Last(trace').op = "generate_summary"
                      \/ Last(trace').op = "generate_summary_failed")
             /\ (pc = "write_summary")
                  => (/\ Last(trace).op = "generate_summary"
                      /\ disk'[summary_file] = Last(trace).res))]_vars

C5_Witness ==
    /\ pc = "exited"
    /\ choice = <<"6">>
    /\ Did(trace, "write_flashcards")
    /\ \E i \in 1..Len(trace) :
          /\ trace[i].op = "generate_summary"
          /\ trace[i].res = disk[summary_file]
          /\ trace[i].res # <<>>

\* The Selector has asked for a file and returned.
Asked == pc = "selected" /\ typed.choice # None

IsEntry(name) ==
    \E i \in 1..Len(DirOf(fs, directory).entries) : DirOf(fs, directory).entries[i] = name

\* C6: with n >= 1 video files listed and a selection made of digits that
\* reads as the number i, the Selector returns the directory joined with the
\* i-th listed name when 1 <= i <= n, and None for every other i (0 and the
\* numbers above n among them).
C6_NumericSelection ==
    (Asked /\ Len(video_files) >= 1 /\ IsDigit(file_choice)) =>
        LET i == IntOf(file_choice)
        IN  IF 1 <= i /\ i <= Len(video_files)
            THEN video_file = Join(directory, video_files[i])
            ELSE video_file = None

C6_Witness ==
    /\ Asked
    /\ Len(video_files) = 3
    /\ IntOf(file_choice) = 2
    /\ video_file = Join(directory, video_files[2])
    /\ video_files[2] # video_files[1]

\* C7: a selection that is not a number and names no entry of the chosen
\* directory, and an empty selection, both make the Selector return None.
C7_EmptyOrUnknownSelection ==
    (Asked /\ ~IsDigit(file_choice) /\ (file_choice = <<>> \/ ~IsEntry(file_choice)))
        => video_file = None

\* C8 as stated: in an existing directory, a typed name that is one of its
\* entries is returned as the path of that entry, and the Selector returns
\* without asking for a name only when the directory has no entry to name.
C8_AnyExistingName ==
    (pc = "selected" /\ IsDir(fs, directory)) =>
        (/\ (typed.choice # None /\ IsEntry(typed.choice))
               => (video_file = Join(directory, typed.choice))
         /\ (typed.choice = None) => (DirOf(fs, directory).entries = <<>>))

\* C8 as amended: in a listable directory with at least one video file, a
\* typed name that is one of its entries, is not made of digits only and has
\* no blank at either end is returned as the path of that entry, video
\* extension or not.
C8_ExistingLiteralName ==
    (/\ Asked
     /\ IsEntry(typed.choice)
     /\ ~IsDigit(typed.choice)
     /\ Strip(typed.choice) = typed.choice)
        => video_file = Join(directory, typed.choice)

C8_Witness ==
    /\ Asked
    /\ typed.choice = N_TXT
    /\ IsEntry(N_TXT)
    /\ video_file = Join(directory, N_TXT)

\* C9: a process whose OPENAI_API_KEY is not set ends on the startup error:
\* it shows no menu, reads no prompt, has no menu choice, and leaves the
\* output folder and the four artefacts as they were.
C9_MissingKeyIsFatal ==
    /\ []((env_key = None /\ pc # "idle") =>
            (/\ pc \in {"main", "crashed"}
             /\ choice = None
             /\ output_folder = None
             /\ trace \in { <<>>, <<Log("raise_EnvironmentError")>> }
             /\ (pc = "crashed") <=> (trace # <<>>)))
    /\ [][(env_key' = None) => (disk' = disk /\ outdir' = outdir)]_vars

C9_Witness ==
    /\ env_key = None
    /\ pc = "crashed"
    /\ Last(trace) = Log("raise_EnvironmentError")
    /\ outdir = FALSE

\* C10: when a run of option 1, 5 or 6 has written flashcards.csv and
\* returned, the file holds what the Flashcard Generator returned for the
\* summary and the transcript that summary.txt and transcription.txt hold;
\* and whenever the Flashcard Generator is about to be called, the summary
\* and the transcript in memory are the ones on disk.
C10_FlashcardsMatchDisk ==
    /\ (pc = "exited" /\ Did(trace, "write_flashcards")) =>
          (/\ choice \in { <<"1">>, <<"5">>, <<"6">> }
           /\ \E i \in 1..Len(trace) :
                 /\ trace[i].op = "generate_flashcards"
                 /\ trace[i].arg = <<disk[summary_file], disk[transcription_file]>>
                 /\ trace[i].res = disk[flashcards_file])
    /\ (pc = "flashcards") =>
          (/\ summary = disk[summary_file]
           /\ transcription = disk[transcription_file])

C10_Witness ==
    /\ pc = "exited"
    /\ choice = <<"1">>
    /\ Did(trace, "write_flashcards")
    /\ disk[transcription_file] # Strip(disk[transcription_file])
    /\ disk[flashcards_file] # <<>>

====
